---- MODULE Spec2Model ----
(***************************************************************************)
(* 1NB Analytics (src/analytics.js): the visitor / session identity, the   *)
(* load -> ensureApp -> mutate -> prepareForSave -> saveData cycle of the  *)
(* pageview recording and of the public API, and the time-on-page flush,   *)
(* over the three storage slots the script uses.                           *)
(*                                                                         *)
(* Text stored in a slot is modelled by what JSON.parse makes of it: a     *)
(* slot is absent, unparseable ("garbage"), parseable but no object        *)
(* ("null"), or a document.  Sets are insertion-ordered (as in JS) and are *)
(* arrays on disk.  NaN is written as null by JSON.stringify.              *)
(***************************************************************************)
EXTENDS Integers, Sequences, FiniteSets, TLC

VARIABLES
    clock,        \* Date.now(), milliseconds
    visitorSlot,  \* localStorage[VISITOR_KEY]
    sessionSlot,  \* sessionStorage[SESSION_KEY], one per tab
    store,        \* localStorage[STORAGE_KEY]
    pc,           \* per tab: the page's position
    ctx,          \* per tab: the constants computed at script load (lines 134-140)
    pending,      \* per tab: the data loaded by a cycle that has not saved yet
    threw,        \* per tab: an exception reached the host page
    hist,         \* history: what the operations performed so far were
    last          \* history: the operation that acted last

vars == <<clock, visitorSlot, sessionSlot, store, pc, ctx, pending, threw, hist, last>>

----------------------------------------------------------------------------
(* Bounds of the model *)

MaxLoads == 2
MaxOps == 2
MaxCycles == 3
MaxTicks == 1
MaxCompletions == 105
MaxUnscored == 1
MaxFlushes == 2
MaxTimeSteps == 3
MaxFaulty == 3
MaxVisits == 3
MaxSessionTicks == 3
MaxPageviews == 3
MaxClears == 1

(* Program constants *)

MaxScores == 100
MinTime == 1
MaxTime == 3600
MsPerSecond == 1000
MsPerDay == 86400000

SessionTimeout == 30 * 60 * 1000

Tabs == {"t1", "t2"}
VisitorIds == {"v_a", "v_b"}
SessionIds == {"s_1", "s_2"}

----------------------------------------------------------------------------
(* Maps (JS objects used as dictionaries) *)

EmptyMap == [k \in {} |-> 0]

Put(m, k, v) == [x \in (DOMAIN m) \cup {k} |-> IF x = k THEN v ELSE m[x]]

Has(m, k) == k \in DOMAIN m

(* (m[k] || 0) *)
GetOr0(m, k) == IF k \in DOMAIN m THEN m[k] ELSE 0

RECURSIVE SumOver(_, _)
SumOver(m, ks) ==
    IF ks = {} THEN 0
    ELSE LET k == CHOOSE x \in ks : TRUE IN m[k] + SumOver(m, ks \ {k})

SeqRange(s) == {s[i] : i \in 1..Len(s)}

----------------------------------------------------------------------------
(* EventClassifier *)

(* A path is its sequence of segments: "/quiz/" is <<"quiz">>, "/" is <<>>. *)
getAppName(path) ==
    IF path = <<>> \/ path = <<"index.html">> THEN "_homepage" ELSE Head(path)

(* A referrer is the set of the host fragments the string contains. *)
getReferrerCategory(ref) ==
    IF ref = {} THEN "direct"
    ELSE IF "onenightbuild.com" \in ref THEN "internal"
    ELSE IF "google." \in ref \/ "bing." \in ref \/ "duckduckgo." \in ref THEN "search"
    ELSE IF "twitter.com" \in ref \/ "x.com" \in ref THEN "twitter"
    ELSE IF "reddit.com" \in ref THEN "reddit"
    ELSE IF "facebook.com" \in ref \/ "instagram.com" \in ref THEN "social"
    ELSE IF "t.co" \in ref THEN "twitter"
    ELSE "referral"

(* utm.source || refCategory *)
sourceKeyOf(utmSource, ref) ==
    IF utmSource /= "" THEN utmSource ELSE getReferrerCategory(ref)

(* new Date().toISOString().split('T')[0]: the calendar day of the clock *)
today(now) == now \div MsPerDay

(* Math.round(x / d) for d > 0: halves round up *)
RoundDiv(x, d) == (2 * x + d) \div (2 * d)

----------------------------------------------------------------------------
(* The analytics document *)

(* A value of interactions or sources: a counter, a score list, NaN (in     *)
(* memory) or null.                                                         *)
IntVal(n) == [t |-> "int", n |-> n, l |-> <<>>]
ListVal(l) == [t |-> "list", n |-> 0, l |-> l]
NaNVal == [t |-> "nan", n |-> 0, l |-> <<>>]
NullVal == [t |-> "null", n |-> 0, l |-> <<>>]

(* uniqueVisitors: a Set (in memory), an array, or another shape *)
SetOf(s) == [kind |-> "set", elems |-> s]
ArrayOf(s) == [kind |-> "array", elems |-> s]
OtherShape == [kind |-> "other", elems |-> <<>>]

NoGlobal == [shape |-> "absent", totalViews |-> 0, dailyViews |-> EmptyMap,
             uniqueVisitors |-> <<>>]

(* {} *)
EmptyData == [json |-> "object", hasApps |-> FALSE, apps |-> EmptyMap, global |-> NoGlobal]

(* JSON.parse('null') *)
NullData == [json |-> "null", hasApps |-> FALSE, apps |-> EmptyMap, global |-> NoGlobal]

AbsentSlot == [kind |-> "absent", doc |-> EmptyData]
GarbageSlot == [kind |-> "garbage", doc |-> EmptyData]
NullSlot == [kind |-> "null", doc |-> EmptyData]
DocSlot(d) == [kind |-> "doc", doc |-> d]

(* JSON.parse(localStorage.getItem(STORAGE_KEY) || '{}'), {} when it throws *)
loadData(slot) ==
    CASE slot.kind = "absent" -> EmptyData
      [] slot.kind = "garbage" -> EmptyData
      [] slot.kind = "null" -> NullData
      [] OTHER -> slot.doc

(* new Set(array): the first occurrence of each element, in order *)
RECURSIVE Dedup(_)
Dedup(s) ==
    IF s = <<>> THEN <<>>
    ELSE LET r == Dedup(SubSeq(s, 1, Len(s) - 1))
             x == s[Len(s)]
         IN IF x \in SeqRange(r) THEN r ELSE Append(r, x)

(* set.add(v) *)
SetAdd(s, v) == IF v \in SeqRange(s) THEN s ELSE Append(s, v)

NewApp(day) ==
    [shape |-> "ok",
     firstSeen |-> day,
     totalViews |-> 0,
     uniqueVisitors |-> SetOf(<<>>),
     dailyViews |-> EmptyMap,
     interactions |-> EmptyMap,
     sources |-> EmptyMap,
     avgTimeOnPage |-> 0,
     totalTimeOnPage |-> 0,
     completedSessions |-> 0,
     shares |-> 0,
     affiliateClicks |-> 0]

(* The repair without its Array.isArray branch: a reloaded array is dropped *)
repairVisitorsNoArray(uv) ==
    IF uv.kind /= "set" THEN SetOf(<<>>) ELSE uv

(* lines 113-118: the repair of uniqueVisitors *)
repairVisitors(uv) ==
    IF uv.kind = "array" THEN SetOf(Dedup(uv.elems))
    ELSE IF uv.kind /= "set" THEN SetOf(<<>>)
    ELSE uv

(* ensureApp reads data.apps: a TypeError when data is null *)
ensureAppThrows(data) == data.json /= "object"

(* ensureApp without the test of line 98: the entry is created anew each time *)
ensureAppAlways(data, app, day) ==
    LET apps0 == IF data.hasApps THEN data.apps ELSE EmptyMap
    IN [data EXCEPT !.hasApps = TRUE, !.apps = Put(apps0, app, NewApp(day))]

(* ensureApp stamping firstSeen at every call *)
ensureAppRestamp(data, app, day) ==
    LET apps0 == IF data.hasApps THEN data.apps ELSE EmptyMap
        entry == IF Has(apps0, app) THEN apps0[app] ELSE NewApp(day)
        fixed == [entry EXCEPT !.firstSeen = day, !.uniqueVisitors = repairVisitors(@)]
    IN [data EXCEPT !.hasApps = TRUE, !.apps = Put(apps0, app, fixed)]

(* ensureApp(data, app): the data with the app's entry created and repaired *)
ensureApp(data, app, day) ==
    LET apps0 == IF data.hasApps THEN data.apps ELSE EmptyMap
        entry == IF Has(apps0, app) THEN apps0[app] ELSE NewApp(day)
        fixed == [entry EXCEPT !.uniqueVisitors = repairVisitors(@)]
    IN [data EXCEPT !.hasApps = TRUE, !.apps = Put(apps0, app, fixed)]

(* The JSON round trip of one value of interactions: NaN is written as null *)
cleanValue(v) == IF v.t = "nan" THEN NullVal ELSE v

(* A replacer that writes the Set's elements last first *)
cleanVisitorsReversed(uv) ==
    IF uv.kind = "set"
    THEN ArrayOf([i \in 1..Len(uv.elems) |-> uv.elems[Len(uv.elems) + 1 - i]])
    ELSE uv

(* The replacer of prepareForSave: a Set becomes the array of its elements *)
cleanVisitors(uv) == IF uv.kind = "set" THEN ArrayOf(uv.elems) ELSE uv

cleanApp(a) ==
    [a EXCEPT !.uniqueVisitors = cleanVisitors(@),
              !.interactions = [k \in DOMAIN @ |-> cleanValue(@[k])],
              !.sources = [k \in DOMAIN @ |-> cleanValue(@[k])]]

(* prepareForSave(data) *)
prepareForSave(data) ==
    IF ~data.hasApps THEN data
    ELSE [data EXCEPT !.apps = [a \in DOMAIN @ |-> cleanApp(@[a])]]

(* A failed write that leaves a truncated text in the slot *)
saveDataTorn(slot, data, ok) == IF ok THEN DocSlot(data) ELSE GarbageSlot

(* saveData(data): the slot after localStorage.setItem, which may fail *)
saveData(slot, data, ok) == IF ok THEN DocSlot(data) ELSE slot

----------------------------------------------------------------------------
(* EventRecorder: what each cycle does to the loaded data *)

(* if (!m[k]) m[k] = 0; m[k]++  on a counter *)
bumpCount(m, k) == Put(m, k, GetOr0(m, k) + 1)

(* Keys every JS object inherits from Object.prototype: m[k] reads the       *)
(* inherited function when m has no property k of its own                   *)
InheritedKeys == {"toString", "constructor"}

(* if (!m[k]) m[k] = 0; m[k]++  on a value of interactions or sources: a    *)
(* non-empty array of objects converts to NaN, an empty array to 0, and an  *)
(* inherited function (truthy) to NaN, which is stored as m's own property  *)
bumpValue(m, k) ==
    IF ~Has(m, k) THEN Put(m, k, IF k \in InheritedKeys THEN NaNVal ELSE IntVal(1))
    ELSE LET v == m[k] IN
         CASE v.t = "int" -> Put(m, k, IntVal(v.n + 1))
           [] v.t = "null" -> Put(m, k, IntVal(1))
           [] v.t = "nan" -> Put(m, k, IntVal(1))
           [] OTHER -> IF v.l = <<>> THEN Put(m, k, IntVal(1)) ELSE Put(m, k, NaNVal)

(* !v *)
Falsy(m, k) ==
    \/ ~Has(m, k) /\ k \notin InheritedKeys
    \/ m[k].t \in {"null", "nan"}
    \/ (m[k].t = "int" /\ m[k].n = 0)

(* slice(0, 100): the oldest hundred kept, the newest dropped *)
keepFirst(l) ==
    IF Len(l) > MaxScores THEN SubSeq(l, 1, MaxScores) ELSE l

(* scores.slice(-100) when longer than 100 *)
keepLast(l) ==
    IF Len(l) > MaxScores THEN SubSeq(l, Len(l) - MaxScores + 1, Len(l)) ELSE l

(* lines 206-215 *)
pushScore(m, rec) ==
    LET m1 == IF Falsy(m, "scores") THEN Put(m, "scores", ListVal(<<>>)) ELSE m
    IN IF m1["scores"].t = "list"
       THEN Put(m1, "scores", ListVal(keepLast(Append(m1["scores"].l, rec))))
       ELSE m1

(* The global view without the scan of line 162: the id is always pushed *)
globalViewAlwaysPush(g, visitor, dateKey) ==
    LET g0 == IF g.shape = "absent"
              THEN [shape |-> "ok", totalViews |-> 0, dailyViews |-> EmptyMap,
                    uniqueVisitors |-> <<>>]
              ELSE g
    IN [g0 EXCEPT !.totalViews = @ + 1,
                  !.dailyViews = bumpCount(@, dateKey),
                  !.uniqueVisitors = Append(@, visitor)]

(* lines 159-164 *)
globalView(g, visitor, dateKey) ==
    LET g0 == IF g.shape = "absent"
              THEN [shape |-> "ok", totalViews |-> 0, dailyViews |-> EmptyMap,
                    uniqueVisitors |-> <<>>]
              ELSE g
    IN [g0 EXCEPT !.totalViews = @ + 1,
                  !.dailyViews = bumpCount(@, dateKey),
                  !.uniqueVisitors = SetAdd(@, visitor)]

(* A pageview that counts the global view twice *)
recordPageviewTwice(data, c) ==
    [data EXCEPT
       !.apps[c.appName] =
          [@ EXCEPT !.totalViews = @ + 1,
                    !.uniqueVisitors = SetOf(SetAdd(@.elems, c.visitorId)),
                    !.dailyViews = bumpCount(@, c.dateKey),
                    !.sources = bumpValue(@, c.sourceKey)],
       !.global = globalView(globalView(@, c.visitorId, c.dateKey), c.visitorId, c.dateKey)]

(* lines 149-164, after ensureApp *)
recordPageview(data, c) ==
    [data EXCEPT
       !.apps[c.appName] =
          [@ EXCEPT !.totalViews = @ + 1,
                    !.uniqueVisitors = SetOf(SetAdd(@.elems, c.visitorId)),
                    !.dailyViews = bumpCount(@, c.dateKey),
                    !.sources = bumpValue(@, c.sourceKey)],
       !.global = globalView(@, c.visitorId, c.dateKey)]

(* lines 174-175 *)
onbTrack(data, app, eventName) ==
    [data EXCEPT !.apps[app].interactions = bumpValue(@, eventName)]

(* lines 183-185 *)
onbAffiliateClick(data, app) ==
    [data EXCEPT !.apps[app] =
        [@ EXCEPT !.affiliateClicks = @ + 1,
                  !.interactions = bumpValue(@, "affiliate_click")]]

(* 'share_' + (platform || 'unknown') *)
shareKey(platform) == IF platform = "" THEN "share_unknown" ELSE "share_" \o platform

(* A share that also counts a view of the app *)
onbShareCountsView(data, app, platform) ==
    [data EXCEPT !.apps[app] =
        [@ EXCEPT !.shares = @ + 1,
                  !.totalViews = @ + 1,
                  !.interactions = bumpValue(@, shareKey(platform))]]

(* lines 193-195 *)
onbShare(data, app, platform) ==
    [data EXCEPT !.apps[app] =
        [@ EXCEPT !.shares = @ + 1,
                  !.interactions = bumpValue(@, shareKey(platform))]]

(* score: [given |-> BOOLEAN, score, max]; lines 203-215 *)
onbComplete(data, app, score, dateKey) ==
    [data EXCEPT !.apps[app] =
        [@ EXCEPT !.completedSessions = @ + 1,
                  !.interactions =
                      LET m == bumpValue(@, "completed")
                      IN IF score.given
                         THEN pushScore(m, [score |-> score.score, max |-> score.max,
                                            date |-> dateKey])
                         ELSE m]]

(* Math.round((Date.now() - pageLoadTime) / 1000) *)
timeSpentAt(now, pageLoadTime) == RoundDiv(now - pageLoadTime, MsPerSecond)

(* The window with its bounds excluded *)
timeIgnoredStrict(timeSpent) == timeSpent <= MinTime \/ timeSpent >= MaxTime

(* line 224 *)
timeIgnored(timeSpent) == timeSpent < MinTime \/ timeSpent > MaxTime

(* app.totalViews || 1 *)
viewCountOf(totalViews) == IF totalViews = 0 THEN 1 ELSE totalViews

(* The average taken before the time is added *)
recordTimeOnPageStale(data, app, timeSpent) ==
    LET a == data.apps[app]
    IN [data EXCEPT !.apps[app] =
           [a EXCEPT !.totalTimeOnPage = a.totalTimeOnPage + timeSpent,
                     !.avgTimeOnPage = RoundDiv(a.totalTimeOnPage, viewCountOf(a.totalViews))]]

(* lines 228-231 *)
recordTimeOnPage(data, app, timeSpent) ==
    LET a == data.apps[app]
        total == a.totalTimeOnPage + timeSpent
    IN [data EXCEPT !.apps[app] =
           [a EXCEPT !.totalTimeOnPage = total,
                     !.avgTimeOnPage = RoundDiv(total, viewCountOf(a.totalViews))]]

----------------------------------------------------------------------------
(* IdentityProvider *)

NoVisitor == ""

(* getVisitorId: the stored id, or a new one (newId: what Math.random gives) *)
getVisitorId(slot, newId) == IF slot = NoVisitor THEN newId ELSE slot

NoSession == [kind |-> "absent", id |-> "", start |-> 0, lastActivity |-> 0, pageviews |-> 0]

(* JSON.parse of unparseable text throws; a parsed primitive throws at line 40 *)
getSessionThrows(slot) == slot.kind \in {"garbage", "nonobj"}

(* The timeout with its bound excluded: expired at exactly 30 minutes *)
sessionExpiredAtLimit(slot, now) ==
    slot.kind = "absent" \/ now - slot.lastActivity >= SessionTimeout

(* line 32 *)
sessionExpired(slot, now) ==
    slot.kind = "absent" \/ now - slot.lastActivity > SessionTimeout

(* A getSession that restarts the session's clock at every access *)
getSessionRestart(slot, now, newId) ==
    LET s == IF sessionExpired(slot, now)
             THEN [kind |-> "ok", id |-> newId, start |-> now, lastActivity |-> now,
                   pageviews |-> 0]
             ELSE slot
    IN [s EXCEPT !.start = now, !.lastActivity = now, !.pageviews = @ + 1]

(* getSession: the session it stores and returns *)
getSession(slot, now, newId) ==
    LET s == IF sessionExpired(slot, now)
             THEN [kind |-> "ok", id |-> newId, start |-> now, lastActivity |-> now,
                   pageviews |-> 0]
             ELSE slot
    IN [s EXCEPT !.lastActivity = now, !.pageviews = @ + 1]

----------------------------------------------------------------------------
(* Inputs *)

Paths == {<<"quiz">>, <<"game">>, <<"admin", "anything">>}
AppNames == {getAppName(p) : p \in Paths}
Referrers == {{}, {"google."}}
EventNames == {"external_click", "scores"}
UtmSources == {"", "newsletter", "toString"}
Platforms == {"", "twitter"}
NoScore == [given |-> FALSE, score |-> 0, max |-> 0]
Score(s, m) == [given |-> TRUE, score |-> s, max |-> m]
Scores == {NoScore, Score(8, 10)}

(* Clock steps: half a second, a second, just under an hour, a day *)
Steps == {500, 1000, 3599000, 86400000}

(* Clock steps around the session timeout: a millisecond, the timeout less *)
(* one, the timeout                                                       *)
SessionSteps == {1, SessionTimeout - 1, SessionTimeout}

----------------------------------------------------------------------------
(* State *)

NoCtx == [appName |-> "", visitorId |-> "", dateKey |-> 0, sourceKey |-> "",
          pageLoadTime |-> 0]

NoPending == [op |-> "none", data |-> EmptyData, name |-> "", score |-> NoScore,
              timeSpent |-> 0, closing |-> FALSE, day |-> 0]

(* A cycle: the data it loaded and, with it, the day ensureApp reads (the    *)
(* handler calls ensureApp right after loadData)                            *)
Cycle(op, data, name, score, timeSpent, closing) ==
    [op |-> op, data |-> data, name |-> name, score |-> score,
     timeSpent |-> timeSpent, closing |-> closing, day |-> today(clock)]

NoLast == [n |-> 0, op |-> "none", tab |-> "", app |-> "", name |-> "",
           timeSpent |-> 0, wrote |-> FALSE, ok |-> FALSE]

Init ==
    /\ clock = 0
    /\ visitorSlot = NoVisitor
    /\ sessionSlot = [t \in Tabs |-> NoSession]
    /\ store = AbsentSlot
    /\ pc = [t \in Tabs |-> "closed"]
    /\ ctx = [t \in Tabs |-> NoCtx]
    /\ pending = [t \in Tabs |-> NoPending]
    /\ threw = [t \in Tabs |-> FALSE]
    /\ hist = [loads |-> 0, ops |-> 0, ticks |-> 0, clears |-> 0,
               views |-> [a \in AppNames |-> 0],
               visitors |-> [a \in AppNames |-> {}],
               tracks |-> [a \in AppNames |-> [e \in EventNames |-> 0]],
               completions |-> [a \in AppNames |-> 0],
               scored |-> [a \in AppNames |-> <<>>],
               firstSeen |-> [a \in AppNames |-> -1],
               visitTime |-> [t \in Tabs |-> 0]]
    /\ last = NoLast

----------------------------------------------------------------------------
(* One load-mutate-save cycle *)

MapOps == {"pageview", "track", "affiliate", "share", "complete"}

(* The TypeErrors of a cycle: data is null (line 97), the app's entry has no *)
(* dailyViews / interactions / sources object, global has no uniqueVisitors  *)
CycleThrows(p, c) ==
    \/ ensureAppThrows(p.data)
    \/ /\ p.op \in MapOps
       /\ p.data.hasApps
       /\ Has(p.data.apps, c.appName)
       /\ p.data.apps[c.appName].shape = "noMaps"
    \/ /\ p.op = "pageview"
       /\ p.data.global.shape = "noUV"

(* The handler's mutation of the data ensureApp returned *)
Mutate(p, d, c) ==
    CASE p.op = "pageview" -> recordPageview(d, c)
      [] p.op = "track" -> onbTrack(d, c.appName, p.name)
      [] p.op = "affiliate" -> onbAffiliateClick(d, c.appName)
      [] p.op = "share" -> onbShare(d, c.appName, p.name)
      [] p.op = "complete" -> onbComplete(d, c.appName, p.score, c.dateKey)
      [] p.op = "flush" -> recordTimeOnPage(d, c.appName, p.timeSpent)
      [] OTHER -> d

(* The slot after ensureApp, the mutation, prepareForSave and saveData *)
CycleStore(slot, p, c, ok) ==
    IF CycleThrows(p, c) THEN slot
    ELSE saveData(slot, prepareForSave(Mutate(p, ensureApp(p.data, c.appName, p.day), c)), ok)

(* History: the cycle was performed *)
Performed(h, p, c) ==
    LET a == c.appName IN
    CASE p.op = "pageview" ->
            [h EXCEPT !.views[a] = @ + 1, !.visitors[a] = @ \cup {c.visitorId}]
      [] p.op = "track" -> [h EXCEPT !.tracks[a][p.name] = @ + 1]
      [] p.op = "complete" ->
            [h EXCEPT !.completions[a] = @ + 1,
                      !.scored[a] = IF p.score.given
                                    THEN Append(@, [score |-> p.score.score,
                                                    max |-> p.score.max,
                                                    date |-> c.dateKey])
                                    ELSE @]
      [] OTHER -> h

(* History: the firstSeen each app's entry had when it was first persisted *)
Born(h, slot) ==
    [h EXCEPT !.firstSeen =
        [a \in AppNames |->
            IF @[a] = -1 /\ slot.kind = "doc" /\ slot.doc.hasApps /\ Has(slot.doc.apps, a)
            THEN slot.doc.apps[a].firstSeen
            ELSE @[a]]]

(* History: the seconds the flushes of tab t's current page have added to   *)
(* totalTimeOnPage, from zero at each page load                             *)
Timed(h, t, p, saved) ==
    CASE saved /\ p.op = "pageview" -> [h EXCEPT !.visitTime[t] = 0]
      [] saved /\ p.op = "flush" -> [h EXCEPT !.visitTime[t] = @ + p.timeSpent]
      [] OTHER -> h

Acted(op, t, c, name, timeSpent, wrote, ok) ==
    [n |-> last.n + 1, op |-> op, tab |-> t, app |-> c.appName, name |-> name,
     timeSpent |-> timeSpent, wrote |-> wrote, ok |-> ok]

(* The second half of a cycle, by tab t with the constants c of its page *)
Finish(t, p, c, ok, h) ==
    LET throws == CycleThrows(p, c) IN
    /\ store' = CycleStore(store, p, c, ok)
    /\ threw' = [threw EXCEPT ![t] = @ \/ throws]
    /\ pc' = [pc EXCEPT ![t] = IF throws /\ p.op = "pageview" THEN "crashed"
                               ELSE IF p.closing THEN "closed" ELSE "ready"]
    /\ pending' = [pending EXCEPT ![t] = NoPending]
    /\ hist' = Timed(Born(IF throws THEN h ELSE Performed(h, p, c),
                          CycleStore(store, p, c, ok)),
                     t, p, ~throws /\ ok)
    /\ last' = Acted(p.op, t, c, p.name, p.timeSpent, ~throws, ~throws /\ ok)

(* The first half of a cycle, when another tab may act before it saves *)
Begin(t, p, h) ==
    /\ pc' = [pc EXCEPT ![t] = "loaded"]
    /\ pending' = [pending EXCEPT ![t] = p]
    /\ hist' = h
    /\ last' = Acted("load", t, ctx[t], p.name, p.timeSpent, FALSE, FALSE)
    /\ UNCHANGED <<store, threw>>

SpendOp == [hist EXCEPT !.ops = @ + 1]

----------------------------------------------------------------------------
(* Script load: lines 134-166 *)

(* The check against the path with its slash, which getAppName has stripped *)
skipTrackingSlash(appName) == appName = "/admin"

(* line 143: the admin page is not tracked *)
skipTracking(appName) == appName = "admin"

Boot(t, path, ref, utm, newVid, newSid, okV, okS, okD, split) ==
    LET needV == visitorSlot = NoVisitor
        vid == getVisitorId(visitorSlot, newVid)
        throwV == needV /\ ~okV
        throwS == getSessionThrows(sessionSlot[t]) \/ ~okS
        sess == getSession(sessionSlot[t], clock, newSid)
        c == [appName |-> getAppName(path), visitorId |-> vid, dateKey |-> today(clock),
              sourceKey |-> sourceKeyOf(utm, ref), pageLoadTime |-> clock]
        h == [hist EXCEPT !.loads = @ + 1]
        p == Cycle("pageview", loadData(store), "", NoScore, 0, FALSE)
    IN
    /\ pc[t] = "closed"
    /\ clock' = clock
    /\ visitorSlot' = IF throwV THEN visitorSlot ELSE vid
    /\ sessionSlot' = IF throwV \/ throwS THEN sessionSlot
                      ELSE [sessionSlot EXCEPT ![t] = sess]
    /\ IF throwV \/ throwS
       THEN /\ pc' = [pc EXCEPT ![t] = "crashed"]
            /\ threw' = [threw EXCEPT ![t] = TRUE]
            /\ hist' = h
            /\ last' = Acted("boot", t, c, "", 0, FALSE, FALSE)
            /\ UNCHANGED <<store, ctx, pending>>
       ELSE /\ ctx' = [ctx EXCEPT ![t] = c]
            /\ IF skipTracking(c.appName)
               THEN /\ pc' = [pc EXCEPT ![t] = "skipped"]
                    /\ hist' = h
                    /\ last' = Acted("boot", t, c, "", 0, FALSE, FALSE)
                    /\ UNCHANGED <<store, threw, pending>>
               ELSE IF split
                    THEN /\ pc' = [pc EXCEPT ![t] = "loaded"]
                         /\ pending' = [pending EXCEPT ![t] = p]
                         /\ hist' = h
                         /\ last' = Acted("load", t, c, "", 0, FALSE, FALSE)
                         /\ UNCHANGED <<store, threw>>
                    ELSE Finish(t, p, c, okD, h)

(* The whole script, in one step *)
PageLoad(t, path, ref, utm, newVid, newSid, okV, okS, okD) ==
    Boot(t, path, ref, utm, newVid, newSid, okV, okS, okD, FALSE)

(* The script up to loadData (line 146) *)
PageLoadBegin(t, path, ref, utm, newVid, newSid) ==
    Boot(t, path, ref, utm, newVid, newSid, TRUE, TRUE, TRUE, TRUE)

----------------------------------------------------------------------------
(* Public API and lifecycle handlers, each in one step *)

Frame == UNCHANGED <<clock, visitorSlot, sessionSlot, ctx>>

OnbTrack(t, eventName, ok) ==
    /\ pc[t] = "ready"
    /\ Finish(t, Cycle("track", loadData(store), eventName, NoScore, 0, FALSE),
              ctx[t], ok, SpendOp)
    /\ Frame

OnbAffiliateClick(t, ok) ==
    /\ pc[t] = "ready"
    /\ Finish(t, Cycle("affiliate", loadData(store), "", NoScore, 0, FALSE),
              ctx[t], ok, SpendOp)
    /\ Frame

OnbShare(t, platform, ok) ==
    /\ pc[t] = "ready"
    /\ Finish(t, Cycle("share", loadData(store), platform, NoScore, 0, FALSE),
              ctx[t], ok, SpendOp)
    /\ Frame

OnbComplete(t, score, ok) ==
    /\ pc[t] = "ready"
    /\ Finish(t, Cycle("complete", loadData(store), "", score, 0, FALSE),
              ctx[t], ok, SpendOp)
    /\ Frame

(* recordTimeOnPage; closing: it runs for beforeunload, and the page goes *)
RecordTimeOnPage(t, ok, closing, split) ==
    LET timeSpent == timeSpentAt(clock, ctx[t].pageLoadTime)
        p == Cycle("flush", loadData(store), "", NoScore, timeSpent, closing)
    IN
    /\ pc[t] = "ready"
    /\ IF timeIgnored(timeSpent)
       THEN /\ pc' = [pc EXCEPT ![t] = IF closing THEN "closed" ELSE "ready"]
            /\ hist' = SpendOp
            /\ last' = Acted("flush", t, ctx[t], "", timeSpent, FALSE, FALSE)
            /\ UNCHANGED <<store, threw, pending>>
       ELSE IF split THEN Begin(t, p, SpendOp)
            ELSE Finish(t, p, ctx[t], ok, SpendOp)
    /\ Frame

(* visibilitychange with document.hidden *)
Hidden(t, ok) == RecordTimeOnPage(t, ok, FALSE, FALSE)

(* beforeunload *)
Unload(t, ok) == RecordTimeOnPage(t, ok, TRUE, FALSE)

(* The click listener: link is "amazon" (affiliate and external), "external" *)
(* or "internal"; the two calls are two cycles, one after the other          *)
Click(t, link, ok1, ok2) ==
    LET c == ctx[t]
        p1 == Cycle("affiliate", loadData(store), "", NoScore, 0, FALSE)
        throws1 == link = "amazon" /\ CycleThrows(p1, c)
        s1 == IF link = "amazon" THEN CycleStore(store, p1, c, ok1) ELSE store
        h1 == IF link = "amazon" /\ ~throws1 THEN Performed(SpendOp, p1, c) ELSE SpendOp
        p2 == Cycle("track", loadData(s1), "external_click", NoScore, 0, FALSE)
        second == link \in {"amazon", "external"} /\ ~throws1
        throws2 == second /\ CycleThrows(p2, c)
    IN
    /\ pc[t] = "ready"
    /\ store' = IF second THEN CycleStore(s1, p2, c, ok2) ELSE s1
    /\ threw' = [threw EXCEPT ![t] = @ \/ throws1 \/ throws2]
    /\ hist' = Born(IF second /\ ~throws2 THEN Performed(h1, p2, c) ELSE h1,
                    IF second THEN CycleStore(s1, p2, c, ok2) ELSE s1)
    /\ last' = Acted("click", t, c, link, 0, second /\ ~throws2, second /\ ~throws2 /\ ok2)
    /\ UNCHANGED <<pc, pending>>
    /\ Frame

----------------------------------------------------------------------------
(* The same handlers when tabs interleave: a cycle loads, then saves *)

TrackBegin(t, eventName) ==
    /\ pc[t] = "ready"
    /\ Begin(t, Cycle("track", loadData(store), eventName, NoScore, 0, FALSE), SpendOp)
    /\ Frame

AffiliateBegin(t) ==
    /\ pc[t] = "ready"
    /\ Begin(t, Cycle("affiliate", loadData(store), "", NoScore, 0, FALSE), SpendOp)
    /\ Frame

ShareBegin(t, platform) ==
    /\ pc[t] = "ready"
    /\ Begin(t, Cycle("share", loadData(store), platform, NoScore, 0, FALSE), SpendOp)
    /\ Frame

CompleteBegin(t, score) ==
    /\ pc[t] = "ready"
    /\ Begin(t, Cycle("complete", loadData(store), "", score, 0, FALSE), SpendOp)
    /\ Frame

HiddenBegin(t) == RecordTimeOnPage(t, TRUE, FALSE, TRUE)

UnloadBegin(t) == RecordTimeOnPage(t, TRUE, TRUE, TRUE)

(* ensureApp, the mutation and the save of the cycle tab t has begun *)
Commit(t, ok) ==
    /\ pc[t] = "loaded"
    /\ Finish(t, pending[t], ctx[t], ok, hist)
    /\ Frame

----------------------------------------------------------------------------
(* Environment *)

Tick(d) ==
    /\ clock' = clock + d
    /\ hist' = [hist EXCEPT !.ticks = @ + 1]
    /\ UNCHANGED <<visitorSlot, sessionSlot, store, pc, ctx, pending, threw, last>>

(* The page goes away where the script registered no handler (lines 143, 235) *)
Leave(t) ==
    /\ pc[t] \in {"skipped", "crashed"}
    /\ pc' = [pc EXCEPT ![t] = "closed"]
    /\ last' = Acted("leave", t, ctx[t], "", 0, FALSE, FALSE)
    /\ UNCHANGED <<clock, visitorSlot, sessionSlot, store, ctx, pending, threw, hist>>

(* The user removes the visitor id from the store *)
ClearVisitor ==
    /\ visitorSlot /= NoVisitor
    /\ visitorSlot' = NoVisitor
    /\ hist' = [hist EXCEPT !.clears = @ + 1]
    /\ UNCHANGED <<clock, sessionSlot, store, pc, ctx, pending, threw, last>>

----------------------------------------------------------------------------
(* Specifications *)

FreshIds == IF visitorSlot = NoVisitor THEN VisitorIds ELSE {visitorSlot}

(* Tabs of one origin on the shared store: each cycle loads, then saves, and *)
(* another tab may act in between.  Every write succeeds.                   *)
Next ==
    \/ /\ hist.loads + hist.ops < MaxCycles
       /\ \E t \in Tabs, path \in {<<"quiz">>, <<"game">>} :
             PageLoadBegin(t, path, {}, "", "v_a", "s_1")
    \/ /\ hist.loads + hist.ops < MaxCycles
       /\ \E t \in Tabs :
             \/ TrackBegin(t, "external_click")
             \/ AffiliateBegin(t)
             \/ ShareBegin(t, "twitter")
             \/ CompleteBegin(t, Score(8, 10))
             \/ HiddenBegin(t)
    \/ \E t \in Tabs : UnloadBegin(t)
    \/ \E t \in Tabs : Commit(t, TRUE)
    \/ /\ hist.ticks < MaxTicks
       /\ Tick(1000)

Spec == Init /\ [][Next]_vars

(* Pageviews only, by tabs whose cycles interleave, the visitor id being     *)
(* removed and generated again in between; a page that is closed at once    *)
(* flushes nothing (0 seconds)                                              *)
NextVisitors ==
    \/ /\ hist.loads < MaxPageviews
       /\ \E t \in Tabs, path \in {<<"quiz">>, <<"game">>}, newVid \in FreshIds :
             PageLoadBegin(t, path, {}, "", newVid, "s_1")
    \/ \E t \in Tabs : Commit(t, TRUE)
    \/ \E t \in Tabs : UnloadBegin(t)
    \/ /\ hist.clears < MaxClears
       /\ ClearVisitor

SpecVisitors == Init /\ [][NextVisitors]_vars

(* The same tabs over several days: page loads from several sources and     *)
(* onbTrack calls, each cycle loading and then saving, and midnight passing *)
(* in between                                                               *)
NextDays ==
    \/ /\ hist.loads + hist.ops < MaxCycles
       /\ \E t \in Tabs, path \in {<<"quiz">>, <<"game">>}, ref \in Referrers,
             utm \in UtmSources :
             PageLoadBegin(t, path, ref, utm, "v_a", "s_1")
    \/ /\ hist.loads + hist.ops < MaxCycles
       /\ \E t \in Tabs : TrackBegin(t, "external_click")
    \/ \E t \in Tabs : Commit(t, TRUE)
    \/ /\ hist.ticks < MaxTicks
       /\ Tick(MsPerDay)

SpecDays == Init /\ [][NextDays]_vars

(* One tab, every handler in one step, every write succeeding *)
SeqTab == "t1"

NextSeq ==
    \/ /\ hist.loads < MaxLoads
       /\ \E path \in Paths, ref \in Referrers, newVid \in FreshIds :
             PageLoad(SeqTab, path, ref, "", newVid, "s_1", TRUE, TRUE, TRUE)
    \/ /\ hist.loads < MaxLoads
       /\ pc[SeqTab] = "closed"
       /\ ClearVisitor
    \/ /\ hist.ops < MaxOps
       /\ \/ \E e \in EventNames : OnbTrack(SeqTab, e, TRUE)
          \/ OnbAffiliateClick(SeqTab, TRUE)
          \/ \E pl \in Platforms : OnbShare(SeqTab, pl, TRUE)
          \/ \E sc \in Scores : OnbComplete(SeqTab, sc, TRUE)
          \/ Hidden(SeqTab, TRUE)
          \/ \E link \in {"amazon", "external", "internal"} : Click(SeqTab, link, TRUE, TRUE)
    \/ Unload(SeqTab, TRUE)
    \/ Leave(SeqTab)

SpecSeq == Init /\ [][NextSeq]_vars

(* One page of one app, and completions only: the k-th scored one has score k *)
NextScores ==
    \/ /\ hist.loads = 0
       /\ PageLoad(SeqTab, <<"quiz">>, {"google."}, "", "v_a", "s_1", TRUE, TRUE, TRUE)
    \/ /\ hist.ops < MaxCompletions
       /\ OnbComplete(SeqTab, Score(Len(hist.scored["quiz"]) + 1, 10), TRUE)
    \/ /\ hist.ops < MaxCompletions
       /\ hist.ops - Len(hist.scored["quiz"]) < MaxUnscored
       /\ OnbComplete(SeqTab, NoScore, TRUE)

SpecScores == Init /\ [][NextScores]_vars

(* One page at a time of one app, its flushes, and the clock *)
NextTime ==
    \/ /\ hist.loads < MaxLoads
       /\ PageLoad(SeqTab, <<"quiz">>, {}, "", "v_a", "s_1", TRUE, TRUE, TRUE)
    \/ /\ hist.ops < MaxFlushes
       /\ Hidden(SeqTab, TRUE)
    \/ /\ hist.ops < MaxFlushes
       /\ Unload(SeqTab, TRUE)
    \/ /\ hist.ticks < MaxTimeSteps
       /\ \E d \in Steps : Tick(d)

SpecTime == Init /\ [][NextTime]_vars

(* One tab visiting pages one after the other while the clock advances: the *)
(* session is read and written by each page load (line 135), on the admin   *)
(* page too.  Math.random gives an id other than the stored one.            *)
FreshSessionIds(t) == SessionIds \ {sessionSlot[t].id}

NextSession ==
    \/ /\ hist.loads < MaxVisits
       /\ \E path \in {<<"quiz">>, <<"admin", "anything">>}, newSid \in FreshSessionIds(SeqTab) :
             PageLoad(SeqTab, path, {}, "", "v_a", newSid, TRUE, TRUE, TRUE)
    \/ Unload(SeqTab, TRUE)
    \/ Leave(SeqTab)
    \/ /\ hist.ticks < MaxSessionTicks
       /\ \E d \in SessionSteps : Tick(d)

SpecSession == Init /\ [][NextSession]_vars

(* Slot contents the script did not write: text that does not parse, text   *)
(* that parses to null or a number, documents with fields missing           *)
GarbageSession == [NoSession EXCEPT !.kind = "garbage"]
NonObjSession == [NoSession EXCEPT !.kind = "nonobj"]

NoMapsApp == [NewApp(0) EXCEPT !.shape = "noMaps", !.uniqueVisitors = ArrayOf(<<>>)]
OddVisitorsApp == [NewApp(0) EXCEPT !.uniqueVisitors = OtherShape]

NoMapsDoc == [json |-> "object", hasApps |-> TRUE,
              apps |-> [a \in {"quiz"} |-> NoMapsApp], global |-> NoGlobal]
OddVisitorsDoc == [json |-> "object", hasApps |-> TRUE,
                   apps |-> [a \in {"quiz"} |-> OddVisitorsApp], global |-> NoGlobal]
NoVisitorsGlobalDoc == [json |-> "object", hasApps |-> TRUE, apps |-> EmptyMap,
                        global |-> [NoGlobal EXCEPT !.shape = "noUV"]]

InitFault ==
    /\ clock = 0
    /\ visitorSlot = NoVisitor
    /\ sessionSlot \in [Tabs -> {NoSession, GarbageSession, NonObjSession}]
    /\ sessionSlot["t2"] = NoSession
    /\ store \in {AbsentSlot, GarbageSlot, NullSlot, DocSlot(NoMapsDoc),
                  DocSlot(OddVisitorsDoc), DocSlot(NoVisitorsGlobalDoc)}
    /\ pc = [t \in Tabs |-> "closed"]
    /\ ctx = [t \in Tabs |-> NoCtx]
    /\ pending = [t \in Tabs |-> NoPending]
    /\ threw = [t \in Tabs |-> FALSE]
    /\ hist = [loads |-> 0, ops |-> 0, ticks |-> 0, clears |-> 0,
               views |-> [a \in AppNames |-> 0],
               visitors |-> [a \in AppNames |-> {}],
               tracks |-> [a \in AppNames |-> [e \in EventNames |-> 0]],
               completions |-> [a \in AppNames |-> 0],
               scored |-> [a \in AppNames |-> <<>>],
               firstSeen |-> [a \in AppNames |-> -1],
               visitTime |-> [t \in Tabs |-> 0]]
    /\ last = NoLast

(* One tab, every handler in one step; a write to storage may fail *)
NextFault ==
    \/ /\ hist.loads + hist.ops < MaxFaulty
       /\ \E okV, okS, okD \in BOOLEAN :
             PageLoad(SeqTab, <<"quiz">>, {}, "", "v_a", "s_1", okV, okS, okD)
    \/ /\ hist.loads + hist.ops < MaxFaulty
       /\ \E ok \in BOOLEAN :
             \/ OnbTrack(SeqTab, "external_click", ok)
             \/ OnbAffiliateClick(SeqTab, ok)
             \/ OnbShare(SeqTab, "twitter", ok)
             \/ OnbComplete(SeqTab, Score(8, 10), ok)
             \/ Hidden(SeqTab, ok)
    \/ \E ok \in BOOLEAN : Unload(SeqTab, ok)
    \/ Leave(SeqTab)
    \/ /\ hist.ticks < MaxTicks
       /\ Tick(1000)

SpecFault == InitFault /\ [][NextFault]_vars

----------------------------------------------------------------------------
(* What the persisted document holds *)

StoredApps == IF store.kind = "doc" /\ store.doc.hasApps THEN store.doc.apps ELSE EmptyMap

StoredVisitors(a) == IF Has(StoredApps, a) THEN StoredApps[a].uniqueVisitors.elems ELSE <<>>

StoredViews(a) == IF Has(StoredApps, a) THEN StoredApps[a].totalViews ELSE 0

StoredInteractions(a) == IF Has(StoredApps, a) THEN StoredApps[a].interactions ELSE EmptyMap

StoredScores(a) ==
    LET m == StoredInteractions(a)
    IN IF Has(m, "scores") /\ m["scores"].t = "list" THEN m["scores"].l ELSE <<>>

NoDuplicates(s) == \A i, j \in 1..Len(s) : s[i] = s[j] => i = j

----------------------------------------------------------------------------
(* C1: after any sequence of page loads of an app, each saved and reloaded, *)
(* the app's persisted uniqueVisitors holds each visitor id used in those   *)
(* pageviews exactly once: its size is the number of distinct ids used.     *)
C1_UniqueVisitorsCountsDistinct ==
    \A a \in AppNames :
        /\ Len(StoredVisitors(a)) = Cardinality(hist.visitors[a])
        /\ SeqRange(StoredVisitors(a)) = hist.visitors[a]
        /\ NoDuplicates(StoredVisitors(a))

(* The same visitor recorded by two page loads of one app *)
C1_Witness ==
    /\ hist.views["quiz"] = 2
    /\ Cardinality(hist.visitors["quiz"]) = 1
    /\ Len(StoredVisitors("quiz")) = 1

----------------------------------------------------------------------------
(* C6: in one tab, from an absent document and with every write            *)
(* succeeding, each counter equals the number of operations of its kind:   *)
(* totalViews the page loads, interactions[name] the trackInteraction(name)*)
(* calls, interactions.completed and completedSessions the trackCompletion *)
(* calls, and the score list holds one record per scored completion.       *)
CountOf(m, k) == IF ~Has(m, k) THEN 0 ELSE IF m[k].t = "int" THEN m[k].n ELSE -1

StoredCompleted(a) == IF Has(StoredApps, a) THEN StoredApps[a].completedSessions ELSE 0

C6_CountersMatchOperations ==
    \A a \in AppNames :
        /\ StoredViews(a) = hist.views[a]
        /\ \A e \in EventNames :
              hist.tracks[a][e] > 0 => CountOf(StoredInteractions(a), e) = hist.tracks[a][e]
        /\ CountOf(StoredInteractions(a), "completed") = hist.completions[a]
        /\ StoredCompleted(a) = hist.completions[a]
        /\ StoredScores(a) = hist.scored[a]

----------------------------------------------------------------------------
(* C7: a page whose path resolves to "admin" never changes the persisted   *)
(* document: neither its load nor any later step of that page.             *)
C7_AdminPageNeverMutates ==
    [][(last'.n /= last.n /\ last'.app = "admin") => store' = store]_vars

(* An admin page loaded over a document that a tracked page had written *)
C7_Witness ==
    /\ pc[SeqTab] = "skipped"
    /\ last.app = "admin"
    /\ store.kind = "doc"

----------------------------------------------------------------------------
(* C3: after any sequence of trackCompletion calls with a score, the score *)
(* list of the app holds at most 100 records, and exactly the most recent  *)
(* min(n, 100) of the n records submitted, oldest first.                   *)
C3_ScoresAreTheLastHundred ==
    \A a \in AppNames :
        LET l == StoredScores(a)
            h == hist.scored[a]
            k == IF Len(h) < 100 THEN Len(h) ELSE 100
        IN /\ Len(l) <= 100
           /\ Len(l) = k
           /\ \A i \in 1..k : l[i] = h[Len(h) - k + i]

(* 105 scored completions: the first five are gone *)
C3_Witness ==
    /\ Len(hist.scored["quiz"]) = 105
    /\ Len(StoredScores("quiz")) = 100
    /\ StoredScores("quiz")[1].score = 6
    /\ StoredScores("quiz")[100].score = 105

----------------------------------------------------------------------------
(* C4: with tabs interleaving their cycles on the shared document, the     *)
(* persisted global.totalViews never exceeds the number of pageviews all   *)
(* tabs recorded, nor an app's totalViews those recorded for that app: an  *)
(* increment can be lost, never counted twice.                             *)
StoredGlobal == IF store.kind = "doc" THEN store.doc.global ELSE NoGlobal

AllViews == SumOver(hist.views, AppNames)

C4_ViewsNeverOverCounted ==
    /\ StoredGlobal.totalViews <= AllViews
    /\ \A a \in AppNames : StoredViews(a) <= hist.views[a]

(* Two tabs recorded a pageview each and one increment was lost *)
C4_Witness ==
    /\ AllViews = 2
    /\ StoredGlobal.totalViews = 1
    /\ \A t \in Tabs : pc[t] = "ready"

----------------------------------------------------------------------------
(* C10: after an accepted time-on-page flush, the app's avgTimeOnPage in   *)
(* the document it saved is round(totalTimeOnPage / max(totalViews, 1)).   *)
IsRounded(q, x, d) == 2 * d * q - d <= 2 * x /\ 2 * x < 2 * d * q + d

C10_AverageIsRecomputed ==
    (last.op = "flush" /\ last.ok) =>
        /\ Has(StoredApps, last.app)
        /\ LET a == StoredApps[last.app]
               views == IF a.totalViews > 1 THEN a.totalViews ELSE 1
           IN IsRounded(a.avgTimeOnPage, a.totalTimeOnPage, views)

(* A flush that created the app's entry: totalViews is 0 *)
C10_Witness ==
    /\ last.op = "flush"
    /\ last.ok
    /\ StoredViews(last.app) = 0
    /\ StoredApps[last.app].avgTimeOnPage = 1

----------------------------------------------------------------------------
(* C5: every numeric counter of the persisted document (totalViews,        *)
(* dailyViews, sources, integer interactions, completedSessions, shares,   *)
(* affiliateClicks, and the global ones) is non-negative and never         *)
(* decreases from one persisted state to the next.                         *)
DocOf(slot) == IF slot.kind = "doc" THEN slot.doc ELSE EmptyData

MapLeq(m1, m2) == \A k \in DOMAIN m1 : k \in DOMAIN m2 /\ m1[k] <= m2[k]

IntsLeq(m1, m2) ==
    \A k \in DOMAIN m1 :
        m1[k].t = "int" => (k \in DOMAIN m2 /\ m2[k].t = "int" /\ m1[k].n <= m2[k].n)

AppLeq(a1, a2) ==
    /\ a1.totalViews <= a2.totalViews
    /\ MapLeq(a1.dailyViews, a2.dailyViews)
    /\ IntsLeq(a1.sources, a2.sources)
    /\ IntsLeq(a1.interactions, a2.interactions)
    /\ a1.completedSessions <= a2.completedSessions
    /\ a1.shares <= a2.shares
    /\ a1.affiliateClicks <= a2.affiliateClicks

CountersLeq(d1, d2) ==
    /\ d1.global.totalViews <= d2.global.totalViews
    /\ MapLeq(d1.global.dailyViews, d2.global.dailyViews)
    /\ \A a \in DOMAIN d1.apps : a \in DOMAIN d2.apps /\ AppLeq(d1.apps[a], d2.apps[a])

MapNonNeg(m) == \A k \in DOMAIN m : m[k] >= 0

CountersNonNeg(d) ==
    /\ d.global.totalViews >= 0
    /\ MapNonNeg(d.global.dailyViews)
    /\ \A a \in DOMAIN d.apps :
          /\ d.apps[a].totalViews >= 0
          /\ MapNonNeg(d.apps[a].dailyViews)
          /\ \A k \in DOMAIN d.apps[a].sources : d.apps[a].sources[k].n >= 0
          /\ \A k \in DOMAIN d.apps[a].interactions : d.apps[a].interactions[k].n >= 0
          /\ d.apps[a].completedSessions >= 0
          /\ d.apps[a].shares >= 0
          /\ d.apps[a].affiliateClicks >= 0

(* C5 as claimed *)
C5_CountersNeverDecrease ==
    /\ [](CountersNonNeg(DocOf(store)))
    /\ [][CountersLeq(DocOf(store), DocOf(store'))]_vars

(* C5 as it holds: the counters are non-negative, and a cycle never saves a *)
(* counter lower than in the document it loaded, so they never decrease     *)
(* when no other tab saved between the cycle's load and its save.           *)
SavesWhatItLoaded ==
    /\ last'.n /= last.n
    /\ last'.wrote
    /\ pending[last'.tab].data = loadData(store)

C5_CountersNeverDecreaseWithoutOverlap ==
    /\ [](CountersNonNeg(DocOf(store)))
    /\ [][SavesWhatItLoaded => CountersLeq(DocOf(store), DocOf(store'))]_vars

(* Two pageviews whose cycles did not overlap: both are counted *)
C5_Witness ==
    /\ last.wrote
    /\ AllViews = 2
    /\ StoredGlobal.totalViews = 2

----------------------------------------------------------------------------
(* C2: no recorder operation ever raises an exception to the host page,    *)
(* whatever the persisted slots hold and whether or not writes succeed.    *)
C2_NothingThrows == \A t \in Tabs : ~threw[t]

----------------------------------------------------------------------------
(* C8: when the write of the analytics document fails, the operation ends  *)
(* without an error and the persisted document is left exactly as it was.  *)
SaveFailed == last'.n /= last.n /\ last'.wrote /\ ~last'.ok

C8_FailedWriteKeepsDocument ==
    [][SaveFailed => (store' = store /\ threw' = threw)]_vars

(* The second pageview's write failed: the document still holds the first *)
C8_Witness ==
    /\ last.op = "pageview"
    /\ last.wrote
    /\ ~last.ok
    /\ hist.views["quiz"] = 2
    /\ StoredViews("quiz") = 1

----------------------------------------------------------------------------
(* C9: the time-on-page flush writes nothing when the rounded seconds      *)
(* since page load are below 1 or above 3600, and for every value from 1   *)
(* to 3600 it adds exactly that many seconds to totalTimeOnPage.           *)
TimeOf(slot, a) ==
    IF slot.kind = "doc" /\ Has(slot.doc.apps, a) THEN slot.doc.apps[a].totalTimeOnPage ELSE 0

C9_FlushWindow ==
    [][(last'.n /= last.n /\ last'.op = "flush") =>
          LET a == ctx[last'.tab].appName
              seconds == (clock - ctx[last'.tab].pageLoadTime + 500) \div 1000
          IN IF seconds < 1 \/ seconds > 3600
             THEN store' = store
             ELSE TimeOf(store', a) = TimeOf(store, a) + seconds]_vars

(* A flush at exactly 3600 seconds was accepted *)
C9_Witness ==
    /\ last.op = "flush"
    /\ last.ok
    /\ last.timeSpent = 3600
    /\ TimeOf(store, last.app) >= 3600

----------------------------------------------------------------------------
(* The session of the tab that acted, before and after a page load *)
SessionAccess == hist'.loads = hist.loads + 1

OldSession == sessionSlot[last'.tab]

NewSession == sessionSlot'[last'.tab]

SessionReused == OldSession.kind = "ok" /\ NewSession.id = OldSession.id

(* C11: an access to the session reuses the stored id when now minus       *)
(* lastActivity is at most 30 minutes, and creates a session with a new id *)
(* when none is stored or when it exceeds 30 minutes; the session is never *)
(* replaced for any other reason.                                          *)
C11_SessionStateMachine ==
    /\ [][SessionAccess =>
             IF OldSession.kind = "ok" /\ clock - OldSession.lastActivity <= 1800000
             THEN NewSession.id = OldSession.id
             ELSE /\ NewSession.id /= OldSession.id
                  /\ NewSession.start = clock
                  /\ NewSession.pageviews = 1]_vars
    /\ [][sessionSlot' /= sessionSlot => SessionAccess]_vars

(* A session reused by a second access, then replaced by a third access   *)
(* made more than 30 minutes after the second                              *)
C11_Witness ==
    /\ hist.loads = 3
    /\ sessionSlot[SeqTab].id = "s_2"
    /\ sessionSlot[SeqTab].pageviews = 1
    /\ sessionSlot[SeqTab].start = 2 * 1800000 + 1

----------------------------------------------------------------------------
(* C12: within one session's life, lastActivity never decreases, start     *)
(* never changes, pageviews counts the accesses since the session was      *)
(* created (1 for a new session), and every access persists the session,   *)
(* also when it reuses one.                                                *)
C12_SessionLife ==
    [][SessionAccess =>
          /\ NewSession.kind = "ok"
          /\ NewSession.lastActivity = clock
          /\ IF SessionReused
             THEN /\ NewSession.start = OldSession.start
                  /\ NewSession.lastActivity >= OldSession.lastActivity
                  /\ NewSession.pageviews = OldSession.pageviews + 1
             ELSE NewSession.pageviews = 1]_vars

(* Three accesses within one session, the last some time after the first *)
C12_Witness ==
    /\ sessionSlot[SeqTab].pageviews = 3
    /\ sessionSlot[SeqTab].start = 0
    /\ sessionSlot[SeqTab].lastActivity > 0

----------------------------------------------------------------------------
(* C13 as claimed: an app's firstSeen is set once, when its entry is first  *)
(* created, and the persisted firstSeen of that app never changes           *)
(* afterwards, whatever the tabs do and on whatever day.                    *)
C13_FirstSeenNeverChanges ==
    \A a \in AppNames :
        Has(StoredApps, a) => StoredApps[a].firstSeen = hist.firstSeen[a]

(* C13 as it holds: a cycle that saves what it loaded keeps every persisted *)
(* entry and its firstSeen, so firstSeen never changes while no other tab   *)
(* saved between a cycle's load and its save.                               *)
C13_FirstSeenKeptWithoutOverlap ==
    [][SavesWhatItLoaded =>
          \A a \in DOMAIN StoredApps :
              /\ Has(DocOf(store').apps, a)
              /\ DocOf(store').apps[a].firstSeen = StoredApps[a].firstSeen]_vars

(* An operation of a later day saved over the entry created the day before *)
C13_Witness ==
    /\ last.wrote
    /\ last.op = "track"
    /\ Has(StoredApps, last.app)
    /\ StoredApps[last.app].firstSeen = 0
    /\ today(clock) = 1

----------------------------------------------------------------------------
(* The store's cycle with no mutation: load, ensureApp for app a,          *)
(* prepareForSave, save                                                    *)
RoundTrip(slot, a) ==
    saveData(slot, prepareForSave(ensureApp(loadData(slot), a, today(clock))), TRUE)

(* C14: loading the persisted document, running ensureApp for an existing  *)
(* app and prepareForSave with no mutation, and saving, yields a document  *)
(* identical to the one loaded, and so again the second time; every        *)
(* uniqueVisitors keeps its members in their order.                        *)
C14_RoundTripIsIdentity ==
    \A a \in DOMAIN StoredApps :
        LET once == RoundTrip(store, a)
        IN /\ once = store
           /\ RoundTrip(once, a) = once
           /\ once.doc.apps[a].uniqueVisitors = StoredApps[a].uniqueVisitors

(* A document with two visitors of one app and a null left in interactions *)
C14_Witness ==
    /\ Len(StoredVisitors("quiz")) = 2
    /\ \E k \in DOMAIN StoredInteractions("quiz") : StoredInteractions("quiz")[k].t = "null"
    /\ RoundTrip(store, "quiz") = store

----------------------------------------------------------------------------
(* The score list of app a in a slot: empty when there is none *)
IsScoreList(slot, a) ==
    /\ Has(DocOf(slot).apps, a)
    /\ Has(DocOf(slot).apps[a].interactions, "scores")
    /\ DocOf(slot).apps[a].interactions["scores"].t = "list"

ScoresIn(slot, a) ==
    IF IsScoreList(slot, a) THEN DocOf(slot).apps[a].interactions["scores"].l ELSE <<>>

(* C15: trackCompletion with a score appends the record to                 *)
(* interactions["scores"] in every case, creating the list when the key is *)
(* absent and re-typing a prior value of another shape, so that after the  *)
(* call the list's last element is the new record.                         *)
C15_CompletionAppendsScore ==
    [][\A a \in AppNames :
          Len(hist'.scored[a]) > Len(hist.scored[a]) =>
              /\ IsScoreList(store', a)
              /\ ScoresIn(store', a) /= <<>>
              /\ ScoresIn(store', a)[Len(ScoresIn(store', a))]
                    = hist'.scored[a][Len(hist'.scored[a])]]_vars

----------------------------------------------------------------------------
(* C19: once interactions["scores"] of an app is a list it stays a list    *)
(* and loses entries only through the 100-entry trim, under any sequence   *)
(* of public API calls, trackInteraction("scores") included.               *)
C19_ScoreListSurvives ==
    [][\A a \in AppNames :
          IsScoreList(store, a) =>
              /\ IsScoreList(store', a)
              /\ LET old == ScoresIn(store, a)
                     new == ScoresIn(store', a)
                 IN \/ new = old
                    \/ /\ new /= <<>>
                       /\ Len(old) < 100
                       /\ SubSeq(new, 1, Len(new) - 1) = old
                    \/ /\ Len(old) = 100
                       /\ Len(new) = 100
                       /\ SubSeq(new, 1, 99) = SubSeq(old, 2, 100)]_vars

----------------------------------------------------------------------------
(* C16: global.uniqueVisitors is duplicate-free in every persisted         *)
(* document reached by pageview recordings, interleaved across tabs        *)
(* included: a pageview appends the visitor id only when the sequence it   *)
(* loaded does not hold it, and leaves the order of the ids it loaded.     *)
PageviewSaved == last'.n /= last.n /\ last'.op = "pageview" /\ last'.ok

C16_GlobalVisitorsDuplicateFree ==
    /\ [](NoDuplicates(StoredGlobal.uniqueVisitors))
    /\ [][PageviewSaved =>
             LET loaded == pending[last'.tab].data.global.uniqueVisitors
                 saved == DocOf(store').global.uniqueVisitors
                 id == ctx[last'.tab].visitorId
             IN IF \E i \in 1..Len(loaded) : loaded[i] = id
                THEN saved = loaded
                ELSE saved = Append(loaded, id)]_vars

(* Three pageviews by two visitors: one of them found its id recorded *)
C16_Witness ==
    /\ hist.loads = 3
    /\ last.op = "pageview"
    /\ last.ok
    /\ StoredGlobal.totalViews = 3
    /\ StoredGlobal.uniqueVisitors = <<"v_a", "v_b">>
    /\ ctx[last.tab].visitorId = "v_b"

----------------------------------------------------------------------------
(* C17: for one page visit, the seconds added to totalTimeOnPage by all    *)
(* its flushes (each visibility-hidden transition and the unload) never    *)
(* exceed the time elapsed from page load to the last flush.               *)
C17_VisitTimeCountedOnce ==
    (last.op = "flush" /\ last.ok) => hist.visitTime[last.tab] <= last.timeSpent

----------------------------------------------------------------------------
(* C18: in every persisted document reached from an absent one by any      *)
(* interleaving of cycles, each app's totalViews is the sum of its         *)
(* dailyViews entries and the sum of its sources entries, and              *)
(* global.totalViews is the sum of global.dailyViews and the sum of the    *)
(* apps' totalViews.                                                       *)
CountsOnly(m) == \A k \in DOMAIN m : m[k].t = "int"

SumOfCounts(m) == SumOver([k \in DOMAIN m |-> m[k].n], DOMAIN m)

C18_CountersAgree ==
    /\ \A a \in DOMAIN StoredApps :
          /\ StoredApps[a].totalViews = SumOver(StoredApps[a].dailyViews,
                                                DOMAIN StoredApps[a].dailyViews)
          /\ CountsOnly(StoredApps[a].sources)
          /\ StoredApps[a].totalViews = SumOfCounts(StoredApps[a].sources)
    /\ StoredGlobal.totalViews = SumOver(StoredGlobal.dailyViews, DOMAIN StoredGlobal.dailyViews)
    /\ StoredGlobal.totalViews = SumOver([a \in DOMAIN StoredApps |-> StoredApps[a].totalViews],
                                         DOMAIN StoredApps)

----------------------------------------------------------------------------
(* C20: in a cycle that no other cycle overlaps, trackInteraction,         *)
(* trackAffiliateClick, trackShare, trackCompletion and the time flush     *)
(* leave the global section and every other app's entry unchanged, and in  *)
(* the current app change only their own fields: interactions[eventName];  *)
(* affiliateClicks and interactions.affiliate_click; shares and            *)
(* interactions[share_<platform>]; completedSessions, interactions         *)
(* .completed and .scores; totalTimeOnPage and avgTimeOnPage.  An entry    *)
(* the cycle has to create counts as the new entry of ensureApp.           *)
OnlyKeys(m0, m1, keys) ==
    /\ DOMAIN m0 \subseteq DOMAIN m1
    /\ \A k \in DOMAIN m1 \ keys : k \in DOMAIN m0 /\ m1[k] = m0[k]

TouchedKeys(op, name) ==
    CASE op = "track" -> {name}
      [] op = "affiliate" -> {"affiliate_click"}
      [] op = "share" -> {shareKey(name)}
      [] op = "complete" -> {"completed", "scores"}
      [] OTHER -> {}

FrameOf(op, name, e0, e1) ==
    /\ e1.firstSeen = e0.firstSeen
    /\ e1.totalViews = e0.totalViews
    /\ e1.uniqueVisitors = e0.uniqueVisitors
    /\ e1.dailyViews = e0.dailyViews
    /\ e1.sources = e0.sources
    /\ OnlyKeys(e0.interactions, e1.interactions, TouchedKeys(op, name))
    /\ op /= "affiliate" => e1.affiliateClicks = e0.affiliateClicks
    /\ op /= "share" => e1.shares = e0.shares
    /\ op /= "complete" => e1.completedSessions = e0.completedSessions
    /\ op /= "flush" => (/\ e1.totalTimeOnPage = e0.totalTimeOnPage
                         /\ e1.avgTimeOnPage = e0.avgTimeOnPage)

C20_NonPageviewFrame ==
    [][(SavesWhatItLoaded /\ last'.ok
          /\ last'.op \in {"track", "affiliate", "share", "complete", "flush"}) =>
          LET old == DocOf(store)
              new == DocOf(store')
              a == last'.app
              e0 == IF Has(old.apps, a) THEN old.apps[a]
                    ELSE cleanApp(NewApp(pending[last'.tab].day))
          IN /\ new.global = old.global
             /\ DOMAIN new.apps = DOMAIN old.apps \cup {a}
             /\ \A b \in DOMAIN old.apps \ {a} : new.apps[b] = old.apps[b]
             /\ FrameOf(last'.op, last'.name, e0, new.apps[a])]_vars

(* A flush saved into a document that holds two apps and the global section *)
C20_Witness ==
    /\ last.op = "flush"
    /\ last.ok
    /\ DOMAIN StoredApps = {"quiz", "game"}
    /\ StoredGlobal.totalViews = 2
    /\ TimeOf(store, last.app) = 1

====
